---- MODULE Spec2Model ----
(***************************************************************************)
(* Model of horovod/run/elastic/discovery.py: HostState, DiscoveredHosts,  *)
(* HostDiscoveryScript and FixedHosts.                                     *)
(*                                                                         *)
(* The classes hold no lock, so every method is modelled as the sequence   *)
(* of its accesses to shared attributes; one action is one such access by  *)
(* one thread.  Objects (HostState, threading.Event) live in two heaps and *)
(* are referred to by their index, 0 being "no object".                    *)
(***************************************************************************)
EXTENDS Integers, Sequences, FiniteSets, TLC

\* ------------------------------------------------------------------ bounds
HostOrder == <<"a", "b">>
Hosts == {HostOrder[i] : i \in DOMAIN HostOrder}
Threads == {"t1", "t2"}
MainThread == "t1"
MaxEvents == 4
MaxSlots == 2
MaxLines == 2
MaxCandidates == 2

\* ------------------------------------------------------------ value spaces
NoObject == 0
NoEntry == -1
SlotValues == 1..MaxSlots
EmptySlots == [h \in Hosts |-> NoEntry]

\* a dict {host: slots} is a function on Hosts, NoEntry marking a missing key
Keys(d) == {h \in Hosts : d[h] # NoEntry}

VARIABLES
    available_hosts,    \* DiscoveredHosts._available_hosts
    available_slots,    \* DiscoveredHosts._available_slots
    host_state,         \* DiscoveredHosts._host_state: host -> HostState index
    states,             \* heap of HostState objects
    events,             \* heap of threading.Event objects: is it set
    discovery,          \* DiscoveredHosts._discovery
    warnings,           \* logging.warning calls, counted per host
    pc, op, loc, result,
    returned,           \* history: handles get_host_event(h) has returned
    observed,           \* history: is_blacklisted(h) has returned True
    before,             \* history: returned[h] when the thread's blacklist(h) began
    signalled,          \* history: an Event.set for the host since the thread's call began
    prior,              \* history: observed[h] when the thread's is_blacklisted(h) began
    stale,              \* history: the source was set since update_available_hosts last read it
    seen                \* history: the hosts that a stored host set has held

shared == <<available_hosts, available_slots, host_state, states, events, discovery, warnings>>
history == <<returned, observed, before, signalled, prior, stale, seen>>
vars == <<available_hosts, available_slots, host_state, states, events, discovery, warnings,
          pc, op, loc, result, returned, observed, before, signalled, prior, stale, seen>>

\* ------------------------------------------------------------- results
None == [kind |-> "none", val |-> 0]
Bool(b) == [kind |-> "bool", val |-> b]
IntResult(n) == [kind |-> "int", val |-> n]
Handle(e) == [kind |-> "event", val |-> e]
HostList(s) == [kind |-> "hosts", val |-> s]
Raised(e) == [kind |-> "error", val |-> e]
Pair(hosts, slots) == [kind |-> "snapshot", val |-> <<hosts, slots>>]

NoLocals ==
    [host |-> "a", ret |-> "", st |-> NoObject, ev |-> NoObject, old |-> NoObject,
     rotated |-> FALSE, first |-> FALSE,
     prev_hosts |-> {}, prev_slots |-> EmptySlots,
     new_hosts |-> {}, new_slots |-> EmptySlots, exit_code |-> 0, unchanged |-> FALSE,
     iter |-> {}, size |-> 0, hosts |-> <<>>, acc |-> 0, out |-> <<>>, arg |-> <<>>,
     stdout |-> <<>>]

Idle(t) == pc[t] \in {"idle", "done"}

\* the locals of a call with argument host that looks the host's state up first
HostCall(h, ret) == [NoLocals EXCEPT !.host = h, !.ret = ret]

\* ---------------------------------------------------- HostDiscovery sources
Range(f) == {f[i] : i \in DOMAIN f}

\* a source returns a host set together with the slots of exactly these hosts
Snapshots ==
    {sn \in (SUBSET Hosts) \X [Hosts -> SlotValues \cup {NoEntry}] : Keys(sn[2]) = sn[1]}

\* FixedHosts.__init__ / FixedHosts.set
FixedHosts(hosts, slots) ==
    [kind |-> "fixed", hosts |-> hosts, slots |-> slots, default_slots |-> 0,
     reversed |-> FALSE]

\* HostDiscoveryScript.__init__; reversed stands for the order in which this
\* process iterates a set of strings, which the language leaves open
HostDiscoveryScript(slots, reversed) ==
    [kind |-> "script", hosts |-> {}, slots |-> EmptySlots, default_slots |-> slots,
     reversed |-> reversed]

ScriptDiscoveries == {HostDiscoveryScript(d, r) : d \in SlotValues, r \in BOOLEAN}
FixedDiscoveries == {FixedHosts(sn[1], sn[2]) : sn \in Snapshots}

\* the sources a DiscoveredHosts is constructed with
Discoveries == {FixedHosts({}, EmptySlots)} \cup ScriptDiscoveries

\* what a run of the discovery script can give: an exit code and the lines of
\* its output, "host" or "host:slots"
ExitCodes == {0, 1}
ScriptRun(exit_code, stdout) == [exit_code |-> exit_code, stdout |-> stdout]
SlotTexts == {ToString(n) : n \in SlotValues} \cup {"x"}
Lines ==
    [host : Hosts, colon : {FALSE}, slots : {""}]
        \cup [host : Hosts, colon : {TRUE}, slots : SlotTexts]
Stdouts == UNION {[1..n -> Lines] : n \in 1..MaxLines}
ScriptRuns ==
    {ScriptRun(c, <<>>) : c \in ExitCodes \ {0}} \cup {ScriptRun(0, so) : so \in Stdouts}
\* what the call of the source draws: a run of the script, nothing for FixedHosts
Runs(d) == IF d.kind = "script" THEN ScriptRuns ELSE {ScriptRun(0, <<>>)}

\* int(slots): the text of an integer, anything else raises ValueError
IsInt(text) == \E n \in SlotValues : ToString(n) = text
int(text) == CHOOSE n \in SlotValues : ToString(n) = text

HostRank(h) == CHOOSE i \in DOMAIN HostOrder : HostOrder[i] = h
LineRank(line) ==
    HostRank(line.host) * (MaxSlots + 3)
        + (IF ~line.colon THEN 0 ELSE IF IsInt(line.slots) THEN int(line.slots) ELSE MaxSlots + 1)

\* the order in which "for line in hosts_and_slots" visits the set of lines
RECURSIVE Visit(_, _)
Visit(S, reversed) ==
    IF S = {} THEN <<>>
    ELSE LET line == CHOOSE x \in S : \A y \in S :
                         IF reversed THEN LineRank(y) <= LineRank(x)
                                     ELSE LineRank(x) <= LineRank(y)
         IN <<line>> \o Visit(S \ {line}, reversed)

\* line 118-125: the loop over the lines
RECURSIVE ParseLines(_, _, _, _)
ParseLines(order, default_slots, hosts, slots) ==
    IF order = <<>> THEN [error |-> "", hosts |-> hosts, slots |-> slots]
    ELSE LET line == Head(order) IN
         IF line.colon /\ ~IsInt(line.slots)
            THEN [error |-> "ValueError", hosts |-> {}, slots |-> EmptySlots]
            ELSE ParseLines(Tail(order), default_slots, hosts \cup {line.host},
                            [slots EXCEPT ![line.host] =
                                IF line.colon THEN int(line.slots) ELSE default_slots])

\* the script's output parsed without a look at its exit code
HostDiscoveryScript_find_IgnoreExitCode(d, exit_code, stdout) ==
    ParseLines(Visit(Range(stdout), d.reversed), d.default_slots, {}, EmptySlots)

\* HostDiscoveryScript.find_available_hosts_and_slots
HostDiscoveryScript_find_available_hosts_and_slots(d, exit_code, stdout) ==
    IF exit_code # 0
       THEN [error |-> "RuntimeError", hosts |-> {}, slots |-> EmptySlots]
       ELSE ParseLines(Visit(Range(stdout), d.reversed), d.default_slots, {}, EmptySlots)

\* FixedHosts.find_available_hosts_and_slots
FixedHosts_find_available_hosts_and_slots(d) ==
    [error |-> "", hosts |-> d.hosts, slots |-> d.slots]

\* self._discovery.find_available_hosts_and_slots(), with the exit code the
\* script ended with
Found(d, run) ==
    LET r == IF d.kind = "script"
                THEN HostDiscoveryScript_find_available_hosts_and_slots(
                         d, run.exit_code, run.stdout)
                ELSE FixedHosts_find_available_hosts_and_slots(d)
    IN  [error |-> r.error, hosts |-> r.hosts, slots |-> r.slots,
         exit_code |-> run.exit_code]

\* what a call of each source can come back with, over all runs
Findings ==
    [d \in FixedDiscoveries \cup ScriptDiscoveries |-> {Found(d, run) : run \in Runs(d)}]

\* ------------------------------------------------- HostState.__init__
HostState == [event |-> Len(events) + 1, blacklisted |-> FALSE]

\* a method call starts: locals are fresh, the history of the caller is reset
Enter(t, o, first, l) ==
    /\ Idle(t)
    /\ op' = [op EXCEPT ![t] = o]
    /\ pc' = [pc EXCEPT ![t] = first]
    /\ loc' = [loc EXCEPT ![t] = l]
    /\ result' = [result EXCEPT ![t] = None]
    /\ before' = [before EXCEPT ![t] = IF o = "blacklist" THEN returned[l.host] ELSE {}]
    /\ signalled' = [signalled EXCEPT ![t] = FALSE]
    /\ prior' = [prior EXCEPT ![t] = IF o = "is_blacklisted" THEN observed[l.host] ELSE FALSE]
    /\ UNCHANGED <<returned, observed, stale, seen>>

\* a method call ends: only what the caller can still see is kept
ReturnWith(t, r, l) ==
    /\ pc' = [pc EXCEPT ![t] = "done"]
    /\ result' = [result EXCEPT ![t] = r]
    /\ loc' = [loc EXCEPT ![t] = [l EXCEPT !.ret = "", !.st = NoObject, !.ev = NoObject,
                                            !.iter = {}, !.size = 0, !.hosts = <<>>,
                                            !.acc = 0, !.out = <<>>]]

Return(t, r) == ReturnWith(t, r, loc[t])

\* -------------------------------------------- defaultdict(HostState)[host]
\* the lookup of a plain dict: a miss raises KeyError
host_state_getitem_PlainDict(t) ==
    /\ pc[t] = "getitem"
    /\ IF host_state[loc[t].host] # NoObject
          THEN /\ loc' = [loc EXCEPT ![t].st = host_state[loc[t].host]]
               /\ pc' = [pc EXCEPT ![t] = loc[t].ret]
               /\ UNCHANGED result
          ELSE Return(t, Raised("KeyError"))
    /\ UNCHANGED <<shared, op, history>>

\* dict lookup: a hit returns the stored object, a miss goes to __missing__
host_state_getitem(t) ==
    /\ pc[t] = "getitem"
    /\ IF host_state[loc[t].host] # NoObject
          THEN /\ loc' = [loc EXCEPT ![t].st = host_state[loc[t].host]]
               /\ pc' = [pc EXCEPT ![t] = loc[t].ret]
          ELSE /\ pc' = [pc EXCEPT ![t] = "missing"]
               /\ UNCHANGED loc
    /\ UNCHANGED <<shared, op, result, history>>

\* __missing__: default_factory() builds a HostState, which is then stored
\* under the key and returned; another thread may have stored one meanwhile
host_state_missing(t) ==
    /\ pc[t] = "missing"
    /\ Len(events) < MaxEvents
    /\ events' = Append(events, FALSE)
    /\ states' = Append(states, HostState)
    /\ host_state' = [host_state EXCEPT ![loc[t].host] = Len(states) + 1]
    /\ loc' = [loc EXCEPT ![t].st = Len(states) + 1]
    /\ pc' = [pc EXCEPT ![t] = loc[t].ret]
    /\ UNCHANGED <<available_hosts, available_slots, discovery, warnings, op, result, history>>

\* ------------------------------------------------ DiscoveredHosts.blacklist
Call_blacklist(t, h) ==
    /\ Enter(t, "blacklist", "getitem", HostCall(h, "bl_check"))
    /\ UNCHANGED shared

\* line 83-84: if not self._host_state[host].is_blacklisted(): logging.warning(..)
blacklist_check(t) ==
    /\ pc[t] = "bl_check"
    /\ warnings' = IF states[loc[t].st].blacklisted
                      THEN warnings
                      ELSE [warnings EXCEPT ![loc[t].host] = @ + 1]
    /\ loc' = [loc EXCEPT ![t].ret = "bl_set", ![t].first = ~states[loc[t].st].blacklisted]
    /\ pc' = [pc EXCEPT ![t] = "getitem"]
    /\ UNCHANGED <<available_hosts, available_slots, host_state, states, events, discovery,
                   op, result, history>>

\* line 85, 45: self._host_state[host].blacklist() sets self._blacklisted = True
HostState_blacklist(t) ==
    /\ pc[t] = "bl_set"
    /\ states' = [states EXCEPT ![loc[t].st].blacklisted = TRUE]
    /\ pc' = [pc EXCEPT ![t] = "set_event"]
    /\ UNCHANGED <<available_hosts, available_slots, host_state, events, discovery, warnings,
                   op, loc, result, history>>

\* line 42: set_event loads self._event ...
set_event(t) ==
    /\ pc[t] = "set_event"
    /\ loc' = [loc EXCEPT ![t].ev = states[loc[t].st].event]
    /\ pc' = [pc EXCEPT ![t] = "event_set"]
    /\ UNCHANGED <<shared, op, result, history>>

\* ... and calls its set(); blacklist returns None
Event_set(t) ==
    /\ pc[t] = "event_set"
    /\ events' = [events EXCEPT ![loc[t].ev] = TRUE]
    /\ signalled' = [u \in Threads |->
                        IF loc[u].host = loc[t].host THEN TRUE ELSE signalled[u]]
    /\ Return(t, None)
    /\ UNCHANGED <<available_hosts, available_slots, host_state, states, discovery, warnings,
                   op, returned, observed, before, prior, stale, seen>>

\* ------------------------------------------- DiscoveredHosts.is_blacklisted
Call_is_blacklisted(t, h) ==
    /\ Enter(t, "is_blacklisted", "getitem", HostCall(h, "ib_read"))
    /\ UNCHANGED shared

\* line 88, 49: return self._host_state[host]._blacklisted
is_blacklisted(t) ==
    /\ pc[t] = "ib_read"
    /\ Return(t, Bool(states[loc[t].st].blacklisted))
    /\ observed' = [observed EXCEPT ![loc[t].host] = @ \/ states[loc[t].st].blacklisted]
    /\ UNCHANGED <<shared, op, returned, before, signalled, prior, stale, seen>>

\* ------------------------------------------- DiscoveredHosts.get_host_event
Call_get_host_event(t, h) ==
    /\ Enter(t, "get_host_event", "getitem", HostCall(h, "ev_check"))
    /\ UNCHANGED shared

\* get_event that hands out the current event whether or not it is set
get_event_check_NoRotate(t) ==
    /\ pc[t] = "ev_check"
    /\ LET e == states[loc[t].st].event IN
          /\ loc' = [loc EXCEPT ![t].old = e, ![t].rotated = events[e]]
          /\ pc' = [pc EXCEPT ![t] = "ev_return"]
    /\ UNCHANGED <<shared, op, result, history>>

\* line 36: if self._event.is_set()
get_event_check(t) ==
    /\ pc[t] = "ev_check"
    /\ LET e == states[loc[t].st].event IN
          /\ loc' = [loc EXCEPT ![t].old = e, ![t].rotated = events[e]]
          /\ pc' = [pc EXCEPT ![t] = IF events[e] THEN "ev_rotate" ELSE "ev_return"]
    /\ UNCHANGED <<shared, op, result, history>>

\* line 37-38: event = threading.Event(); self._event = event
get_event_rotate(t) ==
    /\ pc[t] = "ev_rotate"
    /\ Len(events) < MaxEvents
    /\ events' = Append(events, FALSE)
    /\ states' = [states EXCEPT ![loc[t].st].event = Len(events) + 1]
    /\ pc' = [pc EXCEPT ![t] = "ev_return"]
    /\ UNCHANGED <<available_hosts, available_slots, host_state, discovery, warnings,
                   op, loc, result, history>>

\* line 39: return self._event
get_event(t) ==
    /\ pc[t] = "ev_return"
    /\ Return(t, Handle(states[loc[t].st].event))
    /\ returned' = [returned EXCEPT ![loc[t].host] = @ \cup {states[loc[t].st].event}]
    /\ UNCHANGED <<shared, op, observed, before, signalled, prior, stale, seen>>

\* ------------------------ HostDiscoveryScript.find_available_hosts_and_slots
\* what the call gives its caller: the pair, or the exception
Outcome(r) == IF r.error # "" THEN Raised(r.error) ELSE Pair(r.hosts, r.slots)

Call_find_available_hosts_and_slots(t) ==
    /\ discovery.kind = "script"
    /\ Enter(t, "find_available_hosts_and_slots", "find_execute", NoLocals)
    /\ UNCHANGED shared

\* line 109-110: the script runs and leaves its exit code and its output
safe_shell_exec_execute(t) ==
    /\ pc[t] = "find_execute"
    /\ \E run \in ScriptRuns :
          loc' = [loc EXCEPT ![t].exit_code = run.exit_code, ![t].stdout = run.stdout]
    /\ pc' = [pc EXCEPT ![t] = "find_parse"]
    /\ UNCHANGED <<shared, op, result, history>>

\* line 111-126: the check of the exit code and the loop over the lines
find_available_hosts_and_slots(t) ==
    /\ pc[t] = "find_parse"
    /\ Return(t, Outcome(HostDiscoveryScript_find_available_hosts_and_slots(
                             discovery, loc[t].exit_code, loc[t].stdout)))
    /\ UNCHANGED <<shared, op, history>>

\* ----------------------------------------------------------- FixedHosts.set
\* line 137-139, called by t between two calls of DiscoveredHosts
FixedHosts_set(t) ==
    /\ Idle(t)
    /\ discovery.kind = "fixed"
    /\ \E sn \in Snapshots :
          /\ <<discovery.hosts, discovery.slots>> # sn
          /\ discovery' = FixedHosts(sn[1], sn[2])
    /\ stale' = TRUE
    /\ UNCHANGED <<available_hosts, available_slots, host_state, states, events, warnings,
                   pc, op, loc, result, returned, observed, before, signalled, prior, seen>>

\* ----------------------------------- DiscoveredHosts.update_available_hosts
Call_update_available_hosts(t) ==
    /\ Enter(t, "update_available_hosts", "uah_prev_hosts", NoLocals)
    /\ UNCHANGED shared

\* line 60: prev_hosts = self._available_hosts
update_available_hosts_prev_hosts(t) ==
    /\ pc[t] = "uah_prev_hosts"
    /\ loc' = [loc EXCEPT ![t].prev_hosts = available_hosts]
    /\ pc' = [pc EXCEPT ![t] = "uah_prev_slots"]
    /\ UNCHANGED <<shared, op, result, history>>

\* line 61: prev_slots = self._available_slots
update_available_hosts_prev_slots(t) ==
    /\ pc[t] = "uah_prev_slots"
    /\ loc' = [loc EXCEPT ![t].prev_slots = available_slots]
    /\ pc' = [pc EXCEPT ![t] = "uah_find"]
    /\ UNCHANGED <<shared, op, result, history>>

\* a comparison of the host sets alone
SnapshotChanged_HostsOnly(prev_hosts, prev_slots, hosts, slots) ==
    prev_hosts # hosts

\* line 63: prev_hosts != available_hosts or prev_slots != available_slots
SnapshotChanged(prev_hosts, prev_slots, hosts, slots) ==
    prev_hosts # hosts \/ prev_slots # slots

\* line 62-63, 66: the call of the source, which may raise, and the comparison
update_available_hosts_find(t) ==
    /\ pc[t] = "uah_find"
    /\ \E r \in Findings[discovery] :
          LET l == [loc[t] EXCEPT !.exit_code = r.exit_code,
                                  !.unchanged = ~stale,
                                  !.new_hosts = r.hosts, !.new_slots = r.slots]
          IN  IF r.error # ""
                 THEN ReturnWith(t, Raised(r.error), l)
                 ELSE IF SnapshotChanged(l.prev_hosts, l.prev_slots, r.hosts, r.slots)
                         THEN /\ loc' = [loc EXCEPT ![t] = l]
                              /\ pc' = [pc EXCEPT ![t] = "uah_store_hosts"]
                              /\ UNCHANGED result
                         ELSE ReturnWith(t, Bool(FALSE), l)
    /\ stale' = (discovery.kind = "script")
    /\ UNCHANGED <<shared, op, returned, observed, before, signalled, prior, seen>>

\* a refresh that adds the new hosts to the stored ones
update_available_hosts_store_hosts_Merge(t) ==
    /\ pc[t] = "uah_store_hosts"
    /\ available_hosts' = available_hosts \cup loc[t].new_hosts
    /\ seen' = seen \cup loc[t].new_hosts
    /\ pc' = [pc EXCEPT ![t] = "uah_store_slots"]
    /\ UNCHANGED <<available_slots, host_state, states, events, discovery, warnings,
                   op, loc, result, returned, observed, before, signalled, prior, stale>>

\* line 64: self._available_hosts = available_hosts ...
update_available_hosts_store_hosts(t) ==
    /\ pc[t] = "uah_store_hosts"
    /\ available_hosts' = loc[t].new_hosts
    /\ seen' = seen \cup loc[t].new_hosts
    /\ pc' = [pc EXCEPT ![t] = "uah_store_slots"]
    /\ UNCHANGED <<available_slots, host_state, states, events, discovery, warnings,
                   op, loc, result, returned, observed, before, signalled, prior, stale>>

\* a refresh that drops the states of the hosts that left the snapshot
update_available_hosts_Prune(t) ==
    /\ pc[t] = "uah_store_slots"
    /\ available_slots' = loc[t].new_slots
    /\ host_state' = [h \in Hosts |-> IF h \in loc[t].new_hosts THEN host_state[h] ELSE NoObject]
    /\ Return(t, Bool(TRUE))
    /\ UNCHANGED <<available_hosts, states, events, discovery, warnings, op, history>>

\* ... then self._available_slots = available_slots; line 65: return True
update_available_hosts(t) ==
    /\ pc[t] = "uah_store_slots"
    /\ available_slots' = loc[t].new_slots
    /\ Return(t, Bool(TRUE))
    /\ UNCHANGED <<available_hosts, host_state, states, events, discovery, warnings,
                   op, history>>

\* ------------------------------------------------ DiscoveredHosts.get_slots
Call_get_slots(t, h) ==
    /\ Enter(t, "get_slots", "get_slots", HostCall(h, ""))
    /\ UNCHANGED shared

\* a lookup that gives 0 for a host without an entry
get_slots_DefaultZero(t) ==
    /\ pc[t] = "get_slots"
    /\ LET n == IF available_slots[loc[t].host] = NoEntry
                   THEN 0 ELSE available_slots[loc[t].host] IN
          IF loc[t].ret = ""
             THEN Return(t, IntResult(n))
             ELSE /\ loc' = [loc EXCEPT ![t].acc = @ + n]
                  /\ pc' = [pc EXCEPT ![t] = loc[t].ret]
                  /\ UNCHANGED result
    /\ UNCHANGED <<shared, op, history>>

\* line 73: self._available_slots[host], for a caller or inside one of the sums
get_slots(t) ==
    /\ pc[t] = "get_slots"
    /\ LET n == available_slots[loc[t].host] IN
          IF n = NoEntry
             THEN Return(t, Raised("KeyError"))
             ELSE IF loc[t].ret = ""
                     THEN Return(t, IntResult(n))
                     ELSE /\ loc' = [loc EXCEPT ![t].acc = @ + n]
                          /\ pc' = [pc EXCEPT ![t] = loc[t].ret]
                          /\ UNCHANGED result
    /\ UNCHANGED <<shared, op, history>>

\* ------------------------------------ DiscoveredHosts.count_available_slots
Call_count_available_slots(t) ==
    /\ Enter(t, "count_available_slots", "cas_iter", NoLocals)
    /\ UNCHANGED shared

\* line 69: for host in self._available_hosts: the set object is loaded once
count_available_slots_iter(t) ==
    /\ pc[t] = "cas_iter"
    /\ loc' = [loc EXCEPT ![t].iter = available_hosts]
    /\ pc' = [pc EXCEPT ![t] = "cas_next"]
    /\ UNCHANGED <<shared, op, result, history>>

\* the next host of the set in some order, or the sum at its end
count_available_slots(t) ==
    /\ pc[t] = "cas_next"
    /\ IF loc[t].iter = {}
          THEN Return(t, IntResult(loc[t].acc))
          ELSE /\ \E h \in loc[t].iter :
                     loc' = [loc EXCEPT ![t].host = h, ![t].iter = @ \ {h},
                                        ![t].ret = "cas_flag"]
               /\ pc' = [pc EXCEPT ![t] = "getitem"]
               /\ UNCHANGED result
    /\ UNCHANGED <<shared, op, history>>

\* a sum that takes the slots of every host of the set, blacklisted or not
count_available_slots_flag_CountAll(t) ==
    /\ pc[t] = "cas_flag"
    /\ pc' = [pc EXCEPT ![t] = "get_slots"]
    /\ loc' = [loc EXCEPT ![t].ret = "cas_next"]
    /\ UNCHANGED <<shared, op, result, history>>

\* line 70: if not self._host_state[host].is_blacklisted()
count_available_slots_flag(t) ==
    /\ pc[t] = "cas_flag"
    /\ IF states[loc[t].st].blacklisted
          THEN /\ pc' = [pc EXCEPT ![t] = "cas_next"]
               /\ UNCHANGED loc
          ELSE /\ pc' = [pc EXCEPT ![t] = "get_slots"]
               /\ loc' = [loc EXCEPT ![t].ret = "cas_next"]
    /\ UNCHANGED <<shared, op, result, history>>

\* ----------------------------------- DiscoveredHosts.filter_available_hosts
Candidates == UNION {[1..n -> Hosts] : n \in 0..MaxCandidates}

Call_filter_available_hosts(t, hosts) ==
    /\ Enter(t, "filter_available_hosts", "fah_next",
             [NoLocals EXCEPT !.hosts = hosts, !.arg = hosts])
    /\ UNCHANGED shared

\* line 76-77: for host in hosts if host in self._available_hosts and ...
filter_available_hosts(t) ==
    /\ pc[t] = "fah_next"
    /\ IF loc[t].hosts = <<>>
          THEN Return(t, HostList(loc[t].out))
          ELSE /\ loc' = [loc EXCEPT ![t].host = Head(loc[t].hosts), ![t].hosts = Tail(@),
                                     ![t].ret = "fah_flag"]
               /\ pc' = [pc EXCEPT ![t] =
                            IF Head(loc[t].hosts) \in available_hosts
                               THEN "getitem" ELSE "fah_next"]
               /\ UNCHANGED result
    /\ UNCHANGED <<shared, op, history>>

\* a filter that keeps one occurrence of a host
filter_available_hosts_flag_Dedup(t) ==
    /\ pc[t] = "fah_flag"
    /\ loc' = [loc EXCEPT ![t].out =
                  IF states[loc[t].st].blacklisted \/ loc[t].host \in Range(@)
                     THEN @ ELSE Append(@, loc[t].host)]
    /\ pc' = [pc EXCEPT ![t] = "fah_next"]
    /\ UNCHANGED <<shared, op, result, history>>

\* line 77: ... and not self._host_state[host].is_blacklisted()
filter_available_hosts_flag(t) ==
    /\ pc[t] = "fah_flag"
    /\ loc' = [loc EXCEPT ![t].out =
                  IF states[loc[t].st].blacklisted THEN @ ELSE Append(@, loc[t].host)]
    /\ pc' = [pc EXCEPT ![t] = "fah_next"]
    /\ UNCHANGED <<shared, op, result, history>>

\* -------------------------------------- DiscoveredHosts.get_available_hosts
Orderings(S) == {sq \in [1..Cardinality(S) -> S] : Range(sq) = S}

Call_get_available_hosts(t) ==
    /\ Enter(t, "get_available_hosts", "gah_load", NoLocals)
    /\ UNCHANGED shared

\* line 80: the set is loaded and handed to the filter, which walks it in some order
get_available_hosts(t) ==
    /\ pc[t] = "gah_load"
    /\ \E sq \in Orderings(available_hosts) :
          loc' = [loc EXCEPT ![t].hosts = sq, ![t].arg = sq]
    /\ pc' = [pc EXCEPT ![t] = "fah_next"]
    /\ UNCHANGED <<shared, op, result, history>>

\* ---------------------------------- DiscoveredHosts.count_blacklisted_slots
Call_count_blacklisted_slots(t) ==
    /\ Enter(t, "count_blacklisted_slots", "cbs_iter", NoLocals)
    /\ UNCHANGED shared

\* the keys of self._host_state
HostStateKeys == {h \in Hosts : host_state[h] # NoObject}

\* line 91: self._host_state.items(): the iterator remembers the size of the dict
count_blacklisted_slots_iter(t) ==
    /\ pc[t] = "cbs_iter"
    /\ loc' = [loc EXCEPT ![t].iter = HostStateKeys, ![t].size = Cardinality(HostStateKeys)]
    /\ pc' = [pc EXCEPT ![t] = "cbs_next"]
    /\ UNCHANGED <<shared, op, result, history>>

\* the next item, RuntimeError if the dict has grown meanwhile, or the sum
count_blacklisted_slots(t) ==
    /\ pc[t] = "cbs_next"
    /\ IF Cardinality(HostStateKeys) # loc[t].size
          THEN Return(t, Raised("RuntimeError"))
          ELSE IF loc[t].iter = {}
                  THEN Return(t, IntResult(loc[t].acc))
                  ELSE /\ \E h \in loc[t].iter :
                             loc' = [loc EXCEPT ![t].host = h, ![t].iter = @ \ {h},
                                                ![t].st = host_state[h]]
                       /\ pc' = [pc EXCEPT ![t] = "cbs_flag"]
                       /\ UNCHANGED result
    /\ UNCHANGED <<shared, op, history>>

\* a sum that takes the slots of every key of the map, blacklisted or not
count_blacklisted_slots_flag_CountAll(t) ==
    /\ pc[t] = "cbs_flag"
    /\ pc' = [pc EXCEPT ![t] = "get_slots"]
    /\ loc' = [loc EXCEPT ![t].ret = "cbs_next"]
    /\ UNCHANGED <<shared, op, result, history>>

\* line 91: if meta.is_blacklisted()
count_blacklisted_slots_flag(t) ==
    /\ pc[t] = "cbs_flag"
    /\ IF states[loc[t].st].blacklisted
          THEN /\ pc' = [pc EXCEPT ![t] = "get_slots"]
               /\ loc' = [loc EXCEPT ![t].ret = "cbs_next"]
          ELSE /\ pc' = [pc EXCEPT ![t] = "cbs_next"]
               /\ UNCHANGED loc
    /\ UNCHANGED <<shared, op, result, history>>

\* ------------------------------------------------------------ specification
\* DiscoveredHosts.__init__, before any call
DiscoveredHosts(d) ==
    /\ available_hosts = {}
    /\ available_slots = EmptySlots
    /\ host_state = [h \in Hosts |-> NoObject]
    /\ states = <<>>
    /\ events = <<>>
    /\ discovery = d
    /\ warnings = [h \in Hosts |-> 0]
    /\ pc = [t \in Threads |-> "idle"]
    /\ op = [t \in Threads |-> ""]
    /\ loc = [t \in Threads |-> NoLocals]
    /\ result = [t \in Threads |-> None]
    /\ returned = [h \in Hosts |-> {}]
    /\ observed = [h \in Hosts |-> FALSE]
    /\ before = [t \in Threads |-> {}]
    /\ signalled = [t \in Threads |-> FALSE]
    /\ prior = [t \in Threads |-> FALSE]
    /\ stale = TRUE
    /\ seen = {}

Init == \E d \in Discoveries : DiscoveredHosts(d)

HostStateCall(t, h) ==
    \/ Call_blacklist(t, h)
    \/ Call_is_blacklisted(t, h)
    \/ Call_get_host_event(t, h)

LookupStep(t) ==
    \/ host_state_getitem(t)
    \/ host_state_missing(t)

FlagStep(t) ==
    \/ blacklist_check(t)
    \/ HostState_blacklist(t)
    \/ set_event(t)
    \/ Event_set(t)
    \/ is_blacklisted(t)

EventStep(t) ==
    \/ get_event_check(t)
    \/ get_event_rotate(t)
    \/ get_event(t)

RefreshStep(t) ==
    \/ update_available_hosts_prev_hosts(t)
    \/ update_available_hosts_prev_slots(t)
    \/ update_available_hosts_find(t)
    \/ update_available_hosts_store_hosts(t)
    \/ update_available_hosts(t)

AvailableCall(t) ==
    \/ Call_count_available_slots(t)
    \/ Call_get_available_hosts(t)

AvailableStep(t) ==
    \/ get_slots(t)
    \/ count_available_slots_iter(t)
    \/ count_available_slots(t)
    \/ count_available_slots_flag(t)
    \/ filter_available_hosts(t)
    \/ filter_available_hosts_flag(t)
    \/ get_available_hosts(t)

BlacklistedStep(t) ==
    \/ count_blacklisted_slots_iter(t)
    \/ count_blacklisted_slots(t)
    \/ count_blacklisted_slots_flag(t)

\* one caller at a time: every method runs to its end before the next is called
Next ==
    \/ FixedHosts_set(MainThread)
    \/ \E h \in Hosts :
          \/ Call_blacklist(MainThread, h)
          \/ Call_is_blacklisted(MainThread, h)
          \/ Call_get_slots(MainThread, h)
    \/ \E hosts \in Candidates : Call_filter_available_hosts(MainThread, hosts)
    \/ Call_update_available_hosts(MainThread)
    \/ AvailableCall(MainThread)
    \/ Call_count_blacklisted_slots(MainThread)
    \/ LookupStep(MainThread)
    \/ FlagStep(MainThread)
    \/ RefreshStep(MainThread)
    \/ AvailableStep(MainThread)
    \/ BlacklistedStep(MainThread)

Spec == Init /\ [][Next]_vars

\* the threads of a job report failures of, and wait on, one host
WatchedHosts == {"a"}

NextHostState ==
    \/ \E t \in Threads, h \in WatchedHosts : HostStateCall(t, h)
    \/ \E t \in Threads : LookupStep(t) \/ FlagStep(t) \/ EventStep(t)

InitHostState == DiscoveredHosts(FixedHosts({}, EmptySlots))

SpecHostState == InitHostState /\ [][NextHostState]_vars

\* the polling loop refreshes the snapshot while the other threads read it
Readers == Threads \ {MainThread}

NextSnapshot ==
    \/ Call_update_available_hosts(MainThread)
    \/ RefreshStep(MainThread)
    \/ \E t \in Readers : AvailableCall(t) \/ LookupStep(t) \/ AvailableStep(t)

InitSnapshot == \E d \in ScriptDiscoveries : DiscoveredHosts(d)

SpecSnapshot == InitSnapshot /\ [][NextSnapshot]_vars

\* one caller that blacklists, asks and waits for any host and reads the sums,
\* over a source constructed with a fixed list of hosts
NextTotal ==
    \/ \E h \in Hosts : HostStateCall(MainThread, h)
    \/ Call_update_available_hosts(MainThread)
    \/ AvailableCall(MainThread)
    \/ Call_count_blacklisted_slots(MainThread)
    \/ LookupStep(MainThread)
    \/ FlagStep(MainThread)
    \/ EventStep(MainThread)
    \/ RefreshStep(MainThread)
    \/ AvailableStep(MainThread)
    \/ BlacklistedStep(MainThread)

InitTotal == \E d \in FixedDiscoveries : DiscoveredHosts(d)

SpecTotal == InitTotal /\ [][NextTotal]_vars

FilterStep(t) ==
    \/ filter_available_hosts(t)
    \/ filter_available_hosts_flag(t)

\* one thread sums the slots of the blacklisted hosts while the other
\* refreshes, blacklists, asks and waits for the watched host, and filters
\* lists of any hosts
NextAggregate ==
    \/ Call_update_available_hosts(MainThread)
    \/ \E h \in WatchedHosts : HostStateCall(MainThread, h)
    \/ \E hosts \in Candidates : Call_filter_available_hosts(MainThread, hosts)
    \/ RefreshStep(MainThread)
    \/ LookupStep(MainThread)
    \/ FlagStep(MainThread)
    \/ EventStep(MainThread)
    \/ FilterStep(MainThread)
    \/ \E t \in Readers :
          Call_count_blacklisted_slots(t) \/ BlacklistedStep(t) \/ get_slots(t)

InitAggregate == \E d \in FixedDiscoveries : DiscoveredHosts(d)

SpecAggregate == InitAggregate /\ [][NextAggregate]_vars

\* a caller of the script source alone
NextParse ==
    \/ Call_find_available_hosts_and_slots(MainThread)
    \/ safe_shell_exec_execute(MainThread)
    \/ find_available_hosts_and_slots(MainThread)

SpecParse == InitSnapshot /\ [][NextParse]_vars

\* ---------------------------------------------------------------- claims
Finished(t, o) == pc[t] = "done" /\ op[t] = o

\* what is_blacklisted(h) returns when called and run to its end now
IsBlacklistedNow(h) ==
    /\ host_state[h] # NoObject
    /\ states[host_state[h]].blacklisted

\* C1: every handle that get_host_event(h) returned before a blacklist(h) call
\* began is set once that call has completed.
C1_NoMiss ==
    \A t \in Threads :
        Finished(t, "blacklist") => \A e \in before[t] : events[e]

\* C2: a get_host_event(h) call that finds the current handle set returns a
\* handle that is another one and is not set, and that stays so for as long
\* as no blacklist(h) signals.
C2_NoStaleRewake ==
    \A t \in Threads :
        (Finished(t, "get_host_event") /\ loc[t].rotated /\ ~signalled[t])
            => /\ result[t].kind = "event"
               /\ result[t].val # loc[t].old
               /\ ~events[result[t].val]

C2_Witness ==
    \E t \in Threads :
        /\ Finished(t, "get_host_event") /\ loc[t].rotated /\ ~signalled[t]
        /\ events[loc[t].old]
        /\ result[t].val # loc[t].old

\* C4: blacklist(h) sets the flag and signals in one step: whenever
\* is_blacklisted(h) has returned True after the call that blacklists h set the
\* flag, every handle obtained before that call is set.
C4_BlacklistSignalAtomic ==
    \A t \in Threads, o \in Threads :
        ( /\ op[t] = "blacklist" /\ pc[t] \in {"set_event", "event_set", "done"}
          /\ loc[t].first
          /\ Finished(o, "is_blacklisted") /\ loc[o].host = loc[t].host
          /\ result[o] = Bool(TRUE) /\ ~prior[o] )
            => \A e \in before[t] : events[e]

\* C8: once is_blacklisted(h) has returned True, every later call of it
\* returns True, and no step clears the flag of a host.
C8_BlacklistMonotonic ==
    /\ \A t \in Threads :
           (Finished(t, "is_blacklisted") /\ prior[t]) => result[t] = Bool(TRUE)
    /\ \A h \in Hosts : observed[h] => IsBlacklistedNow(h)

\* C9: however many blacklist(h) calls there are, h is blacklisted after
\* each of them and at most one warning is logged for h.
C9_SingleWarning ==
    /\ \A h \in Hosts : warnings[h] <= 1
    /\ \A t \in Threads : Finished(t, "blacklist") => IsBlacklistedNow(loc[t].host)

\* the sum of f over the hosts of S
RECURSIVE SumOver(_, _)
SumOver(S, f) ==
    IF S = {} THEN 0
    ELSE LET h == CHOOSE x \in S : TRUE IN f[h] + SumOver(S \ {h}, f)

\* C3: a reader that runs while update_available_hosts replaces the snapshot
\* sees the host set and the slots of one snapshot, so that it never fails
\* to find the slots of a host it took from the host set.
C3_SnapshotAtomic ==
    \A t \in Threads :
        Finished(t, "count_available_slots") => result[t].kind = "int"

\* a finished update_available_hosts whose source failed: an error, no
\* boolean, and the stored snapshot is the one from before the call
C5_FailureState ==
    \A t \in Threads :
        (Finished(t, "update_available_hosts")
            /\ (loc[t].exit_code # 0 \/ result[t].kind # "bool"))
            => /\ result[t].kind = "error"
               /\ available_hosts = loc[t].prev_hosts
               /\ available_slots = loc[t].prev_slots

\* no step of update_available_hosts touches a host state
C5_HostStatesKept ==
    \A t \in Threads :
        (op[t] = "update_available_hosts" /\ ~Idle(t))
            => UNCHANGED <<host_state, states, events>>

\* C5: when the source fails, update_available_hosts ends with an error, which
\* is no boolean, the stored snapshot is the one from before the call, and no
\* step of the call touches a host state.
C5_RefreshFailureAtomic == []C5_FailureState /\ [][C5_HostStatesKept]_vars

C5_Witness ==
    \E t \in Threads :
        /\ Finished(t, "update_available_hosts")
        /\ loc[t].exit_code # 0
        /\ result[t] = Raised("RuntimeError")
        /\ available_hosts # {}

\* C6: update_available_hosts returns False exactly when the hosts and the
\* slots the source returned equal the stored ones, True on any difference,
\* and False when the source is the one the previous call read.
C6_DiffCorrect ==
    \A t \in Threads :
        (Finished(t, "update_available_hosts") /\ result[t].kind = "bool")
            => /\ result[t].val =
                      ~( /\ loc[t].new_hosts = loc[t].prev_hosts
                         /\ \A h \in Hosts : loc[t].new_slots[h] = loc[t].prev_slots[h] )
               /\ loc[t].unchanged => result[t].val = FALSE

C6_Witness ==
    \E t \in Threads :
        /\ Finished(t, "update_available_hosts")
        /\ result[t] = Bool(TRUE)
        /\ loc[t].new_hosts = loc[t].prev_hosts
        /\ loc[t].new_hosts # {}

\* C7: after update_available_hosts has returned, the stored hosts and slots
\* are exactly the pair the source returned, and what the readers return
\* comes from that pair alone.
C7_Replace ==
    \A t \in Threads :
        /\ (Finished(t, "update_available_hosts") /\ result[t].kind = "bool")
              => /\ available_hosts = loc[t].new_hosts
                 /\ available_slots = loc[t].new_slots
        /\ (Finished(t, "get_available_hosts") \/ Finished(t, "filter_available_hosts"))
              => /\ result[t].kind = "hosts"
                 /\ Range(result[t].val) \subseteq available_hosts
        /\ (Finished(t, "get_slots") /\ loc[t].host \notin available_hosts)
              => result[t] = Raised("KeyError")
        /\ Finished(t, "count_available_slots")
              => /\ result[t].kind = "int"
                 /\ result[t].val <= SumOver(available_hosts, available_slots)

C7_Witness ==
    \E t \in Threads :
        /\ Finished(t, "update_available_hosts")
        /\ result[t] = Bool(TRUE)
        /\ loc[t].prev_hosts \ loc[t].new_hosts # {}
        /\ available_hosts = loc[t].new_hosts

\* C10: count_blacklisted_slots never fails and returns the sum of the slots
\* of the blacklisted hosts of the host-state map, a host without an entry in
\* the current slots counting 0.
C10_BlacklistedSlotsTotal ==
    \A t \in Threads :
        Finished(t, "count_blacklisted_slots")
            => result[t] =
                   IntResult(SumOver({h \in HostStateKeys : IsBlacklistedNow(h)},
                                     [h \in Hosts |-> IF available_slots[h] = NoEntry
                                                         THEN 0 ELSE available_slots[h]]))

\* the hosts of the stored host set that are not blacklisted
AvailableNow == {h \in available_hosts : ~IsBlacklistedNow(h)}

\* C11: count_available_slots returns the sum of the stored slots over the
\* hosts that are in the stored host set and not blacklisted; a host outside
\* the host set and a blacklisted host of the set add nothing.
C11_AvailableSlotCount ==
    \A t \in Threads :
        Finished(t, "count_available_slots")
            => result[t] = IntResult(SumOver(AvailableNow, available_slots))

C11_Witness ==
    \E t \in Threads :
        /\ Finished(t, "count_available_slots")
        /\ result[t].kind = "int" /\ result[t].val > 0
        /\ \E h \in available_hosts : IsBlacklistedNow(h)

\* the elements of hosts that are in S, in their order and as often as they occur
RECURSIVE Subsequence(_, _)
Subsequence(hosts, S) ==
    IF hosts = <<>> THEN <<>>
    ELSE (IF Head(hosts) \in S THEN <<Head(hosts)>> ELSE <<>>) \o Subsequence(Tail(hosts), S)

\* C12: filter_available_hosts(hosts) returns the subsequence of hosts whose
\* elements are in the stored host set and not blacklisted, in the order and
\* with the repetitions of hosts; get_available_hosts() is this filter applied
\* to the stored host set, each host of it taken once.
C12_FilterSubsequence ==
    \A t \in Threads :
        /\ (Finished(t, "filter_available_hosts") \/ Finished(t, "get_available_hosts"))
              => result[t] = HostList(Subsequence(loc[t].arg, AvailableNow))
        /\ Finished(t, "get_available_hosts")
              => /\ Range(loc[t].arg) = available_hosts
                 /\ Len(loc[t].arg) = Cardinality(available_hosts)

C12_Witness ==
    \E t \in Threads :
        /\ Finished(t, "filter_available_hosts")
        /\ Len(loc[t].arg) = 2 /\ loc[t].arg[1] = loc[t].arg[2]
        /\ result[t] = HostList(loc[t].arg)
        /\ \E h \in available_hosts : IsBlacklistedNow(h)

\* the keys of the host-state map whose state is blacklisted
BlacklistedNow == {h \in HostStateKeys : IsBlacklistedNow(h)}

\* blacklist, is_blacklisted and get_host_event end without an error, and
\* is_blacklisted(h) is False as long as no blacklist(h) has logged its warning
C13_NoError ==
    \A t \in Threads :
        /\ Finished(t, "blacklist") => result[t] = None
        /\ Finished(t, "is_blacklisted") => result[t].kind = "bool"
        /\ Finished(t, "get_host_event") => result[t].kind = "event"
        /\ (Finished(t, "is_blacklisted") /\ warnings[loc[t].host] = 0)
              => result[t] = Bool(FALSE)

\* what the three readers return is a function of the stored snapshot and of
\* the hosts that are blacklisted
C13_Readers ==
    \A t \in Threads :
        /\ Finished(t, "get_available_hosts")
              => /\ result[t].kind = "hosts"
                 /\ Range(result[t].val) = AvailableNow
        /\ Finished(t, "count_available_slots")
              => result[t] = IntResult(SumOver(AvailableNow, available_slots))
        /\ Finished(t, "count_blacklisted_slots")
              => result[t] = IF \E h \in BlacklistedNow : available_slots[h] = NoEntry
                                THEN Raised("KeyError")
                                ELSE IntResult(SumOver(BlacklistedNow, available_slots))

\* a step that adds a key to the host-state map changes none of these
C13_LazyStateNeutral ==
    host_state' # host_state
        => /\ AvailableNow' = AvailableNow
           /\ BlacklistedNow' = BlacklistedNow
           /\ UNCHANGED <<available_hosts, available_slots>>

\* C13: blacklist(h), is_blacklisted(h) and get_host_event(h) end without an
\* error for every host, also one that no snapshot held and no call named
\* before; is_blacklisted(h) is False for a host never blacklisted; and the
\* state a call creates changes nothing in what get_available_hosts,
\* count_available_slots and count_blacklisted_slots return.
C13_Total == [](C13_NoError /\ C13_Readers) /\ [][C13_LazyStateNeutral]_vars

C13_Witness ==
    \E t \in Threads :
        /\ Finished(t, "get_host_event")
        /\ loc[t].host \notin seen
        /\ warnings[loc[t].host] = 0
        /\ result[t].kind = "event"
        /\ AvailableNow # {}

\* a finished get_slots(host): the stored slots of the host, KeyError without
C14_Result ==
    \A t \in Threads :
        Finished(t, "get_slots")
            => result[t] = IF available_slots[loc[t].host] = NoEntry
                              THEN Raised("KeyError")
                              ELSE IntResult(available_slots[loc[t].host])

\* no step of get_slots changes the snapshot, the source or a host state
C14_NoEffect ==
    \A t \in Threads :
        (op[t] = "get_slots" /\ ~Idle(t)) => UNCHANGED shared

\* C14: get_slots(host) returns the slots the stored mapping holds for the
\* host and raises KeyError when it holds none, also for a host that an
\* earlier snapshot held; either way the snapshot and the host states are
\* left as they were.
C14_GetSlots == []C14_Result /\ [][C14_NoEffect]_vars

C14_Witness ==
    \E t \in Threads :
        /\ Finished(t, "get_slots")
        /\ loc[t].host \in seen \ available_hosts
        /\ available_hosts # {}
        /\ result[t] = Raised("KeyError")

\* the event that the state of h holds now
CurrentEvent(h) == IF host_state[h] = NoObject THEN NoObject ELSE states[host_state[h]].event

\* C15: every handle that get_host_event(h) has returned and that is not the
\* event the state of h holds now is set, so that at most one handle of h is
\* not set and it is the one the next blacklist(h) sets.
C15_RotatedOutSignalled ==
    \A h \in Hosts : \A e \in returned[h] : e # CurrentEvent(h) => events[e]

\* C16: count_blacklisted_slots, run while other calls add keys to the
\* host-state map, ends without an error and with a sum of slots of
\* blacklisted hosts of the map.
C16_AggregationSafe ==
    \A t \in Readers :
        Finished(t, "count_blacklisted_slots")
            => /\ result[t].kind = "int"
               /\ \E S \in SUBSET BlacklistedNow :
                      result[t].val = SumOver(S, available_slots)

\* every blacklisted host of the host-state map is in the stored host set
BlacklistedInSnapshot == BlacklistedNow \subseteq available_hosts

\* the sums of the stored slots over the available and the blacklisted hosts
AvailableSlotCount == SumOver(AvailableNow, available_slots)
BlacklistedSlotCount == SumOver(BlacklistedNow, available_slots)

\* with the blacklisted hosts in the snapshot, what count_available_slots
\* returns and the blacklisted slots, and what count_blacklisted_slots returns
\* and the available slots, add up to the slots of the snapshot
C17_Partition ==
    BlacklistedInSnapshot =>
        \A t \in Threads :
            /\ Finished(t, "count_available_slots")
                  => /\ result[t] = IntResult(AvailableSlotCount)
                     /\ result[t].val + BlacklistedSlotCount
                            = SumOver(available_hosts, available_slots)
            /\ Finished(t, "count_blacklisted_slots")
                  => /\ result[t] = IntResult(BlacklistedSlotCount)
                     /\ AvailableSlotCount + result[t].val
                            = SumOver(available_hosts, available_slots)

\* the step of blacklist(h) that sets the flag of a host of the snapshot not
\* blacklisted so far moves the slots of h from the one sum to the other
C17_Move ==
    \A t \in Threads :
        ( /\ pc[t] = "bl_set" /\ pc'[t] = "set_event"
          /\ BlacklistedInSnapshot
          /\ loc[t].host \in available_hosts
          /\ ~IsBlacklistedNow(loc[t].host) )
            => /\ AvailableSlotCount' = AvailableSlotCount - available_slots[loc[t].host]
               /\ BlacklistedSlotCount' = BlacklistedSlotCount + available_slots[loc[t].host]

\* C17: while every blacklisted host is in the stored host set, the results of
\* count_available_slots and count_blacklisted_slots add up to the slots of
\* all hosts of the snapshot, and blacklist(h) of a host of the snapshot not
\* blacklisted so far moves the slots of h from the first to the second.
C17_SlotAccounting == []C17_Partition /\ [][C17_Move]_vars

C17_Witness ==
    \E t \in Threads :
        /\ Finished(t, "count_blacklisted_slots")
        /\ BlacklistedInSnapshot
        /\ result[t].kind = "int" /\ result[t].val > 0
        /\ AvailableSlotCount > 0
        /\ AvailableSlotCount # result[t].val

\* no step removes a key from the host-state map
C18_NeverRemoved ==
    \A h \in Hosts : host_state[h] # NoObject => host_state'[h] # NoObject

\* every host that a stored host set has held has an entry in the host-state map
C18_SeenHaveState == \A h \in seen : host_state[h] # NoObject

\* C18: every host that is or has been in a stored host set has an entry in
\* the host-state map, and no step removes a key from that map.
C18_SupersetOfSeen == []C18_SeenHaveState /\ [][C18_NeverRemoved]_vars

\* a finished blacklist(h), is_blacklisted(h) or get_host_event(h) has left an
\* entry for h
C18_AccessedHaveState ==
    \A t \in Threads :
        (Finished(t, "blacklist") \/ Finished(t, "is_blacklisted")
            \/ Finished(t, "get_host_event"))
            => host_state[loc[t].host] # NoObject

\* C18 as amended: every host that a call has looked up the state of has an
\* entry in the host-state map, whether or not a snapshot held it, and no step
\* removes a key from that map.
C18_SupersetOfAccessed == []C18_AccessedHaveState /\ [][C18_NeverRemoved]_vars

C18_Witness ==
    \E t \in Threads :
        /\ Finished(t, "is_blacklisted")
        /\ loc[t].host \notin seen
        /\ host_state[loc[t].host] # NoObject
        /\ \E h \in seen : host_state[h] = NoObject

\* the source that visits a set of lines in the other order
OtherOrder(d) == [d EXCEPT !.reversed = ~@]

\* C19: for an output of a script that exited with 0, what
\* find_available_hosts_and_slots returns depends on the set of lines alone,
\* not on the order in which they are visited: the hosts are the hosts of the
\* lines, each has its slots, a line host:slots gives that integer and a line
\* host gives the default, also when a host has lines of both forms.
C19_ParseOrderIndependent ==
    \A t \in Threads :
        (Finished(t, "find_available_hosts_and_slots") /\ loc[t].exit_code = 0)
            => LET lines == Range(loc[t].stdout)
                   other == Outcome(HostDiscoveryScript_find_available_hosts_and_slots(
                                        OtherOrder(discovery), 0, loc[t].stdout))
               IN  /\ result[t].kind = other.kind
                   /\ result[t].val = other.val
                   /\ result[t].kind = "snapshot"
                         => /\ result[t].val[1] = {line.host : line \in lines}
                            /\ \A line \in lines :
                                   result[t].val[2][line.host] =
                                       IF line.colon THEN int(line.slots)
                                                     ELSE discovery.default_slots

====
